---- MODULE Spec2Model ----
(***************************************************************************)
(* Model of the four-stage email pipeline of src/email_scraper.py and      *)
(* src/app.py: Stage 1 submits batched queries and records snapshot ids,   *)
(* Stage 2 polls unprocessed snapshots and stores their responses, Stage 3 *)
(* extracts emails from stored responses.  The three Supabase tables and   *)
(* the Bright Data provider are the environment; every remote call can     *)
(* fail, and the Python semantics of each handler (tuple unpacking,        *)
(* keyword arguments, exception handlers) are modelled as the interpreter  *)
(* executes them.                                                          *)
(***************************************************************************)
EXTENDS Integers, Sequences, FiniteSets, TLC

VARIABLES
    snapshot_table,   \* snapshot_id -> "absent" | "pending" | "processed"
    response_table,   \* snapshot_id -> NoRow | [response, is_email_extracted]
    email_table,      \* email address -> number of rows holding it
    provider,         \* snapshot_id -> "none" | "running" | "finished"
    pc,               \* per run: position of the handler it executes
    s1,               \* per run: locals of EmailScraperEngine.process_queries
    s2,               \* per run: locals of process_unprocessed_snapshots
    s3,               \* per run: locals of process_all_responses_for_emails
    result,           \* per run: the value the last handler returned
    last_call         \* the last direct SupabaseClient call and what it returned

vars == <<snapshot_table, response_table, email_table, provider, pc, s1, s2, s3, result,
          last_call>>

(***************************************************************************)
(* Bounds of the model                                                     *)
(***************************************************************************)
NumJobs == 2          \* snapshot ids the provider hands out
MaxQueries == 2       \* longest query list of a pipeline Stage 1 run
MaxStage1Queries == 7 \* longest query list of a Stage 1 run checked alone
MaxBodyLen == 2       \* most elements in a poll response body
NumConcurrentJobs == 1 \* jobs pending when two Stage 2 runs overlap

(***************************************************************************)
(* Program constants                                                       *)
(***************************************************************************)
MinBatchSize == 1     \* app.py batch size slider, min_value
MaxBatchSize == 5     \* app.py batch size slider, max_value
BATCH_SIZE == 20      \* Stage 3 page size

Min(a, b) == IF a < b THEN a ELSE b
BoolRet(b) == IF b THEN "True" ELSE "False"
CeilDiv(n, b) == (n + b - 1) \div b

JobIds == 1..NumJobs
ConcurrentJobs == 1..Min(NumConcurrentJobs, NumJobs)
Runs == {"A", "B"}     \* handler invocations that may overlap (two sessions)
NoRow == [present |-> FALSE]
NoResult == [kind |-> "none"]
NoCall == [op |-> "", key |-> "", ret |-> "", rows |-> {}]
Addresses == {"a@b.com", "c@d.org"}
NoEmails == [a \in Addresses |-> 0]
\* positions at which a session can start a handler
Returned == {"idle", "s1_done", "s2_done", "s3_done"}

(***************************************************************************)
(* Exceptions a Supabase call can raise.  The handlers classify them by    *)
(* searching the exception text for 'duplicate' or 'unique'.               *)
(***************************************************************************)
Faults == {"Fault", "FaultMentioningUnique"}
StoreEnv == {"up"} \cup Faults

\* The text test of save_email / save_response: 'duplicate' in s or 'unique' in s.
MentionsDuplicateOrUnique(exc) == exc \in {"UniqueViolation", "FaultMentioningUnique"}

\* A table insert under a unique key: what the call raises ("" when it returns).
InsertRaises(present, env) ==
    IF env # "up" THEN env
    ELSE IF present THEN "UniqueViolation"
    ELSE ""

(***************************************************************************)
(* SupabaseClient: each operation takes the table and what the remote call *)
(* meets (env) and yields the new table and the value returned.            *)
(***************************************************************************)

\* snapshot_table carries a unique constraint on snapshot_id.
SnapshotKeyConflict(tbl, snapshot_id) == tbl[snapshot_id] # "absent"

\* an insert that overwrites the row it finds
save_snapshot_upsert(tbl, snapshot_id, env) ==
    IF env # "up" THEN [tbl |-> tbl, ret |-> FALSE]
    ELSE [tbl |-> [tbl EXCEPT ![snapshot_id] = "pending"], ret |-> TRUE]

\* save_snapshot: insert {snapshot_id, processed: False}; any exception -> False.
save_snapshot(tbl, snapshot_id, env) ==
    IF InsertRaises(SnapshotKeyConflict(tbl, snapshot_id), env) = ""
    THEN [tbl |-> [tbl EXCEPT ![snapshot_id] = "pending"], ret |-> TRUE]
    ELSE [tbl |-> tbl, ret |-> FALSE]

(***************************************************************************)
(* BrightdataClient.send_request.  An HTTP exchange is                     *)
(*   kind: "transport" (RequestException before a response),               *)
(*         "non_2xx"   (raise_for_status raises),                          *)
(*         "bad_json"  (body is not JSON),                                 *)
(*         "not_dict"  (2xx, JSON body that is no object: .get raises      *)
(*                      AttributeError, which send_request does not catch),*)
(*         "dict"      (2xx, JSON object)                                  *)
(*   ids:  the snapshot_id the body carries, {} when it carries none.      *)
(***************************************************************************)
HttpExchanges ==
    {[kind |-> k, ids |-> {}] : k \in {"transport", "non_2xx", "bad_json", "not_dict", "dict"}}
    \cup {[kind |-> k, ids |-> {j}] : k \in {"non_2xx", "dict"}, j \in JobIds}

None == [none |-> TRUE, ids |-> {}]

send_request(http) ==
    IF http.kind \in {"transport", "non_2xx", "bad_json"} THEN [raised |-> FALSE, value |-> None]
    ELSE IF http.kind = "not_dict" THEN [raised |-> TRUE, value |-> None]
    ELSE [raised |-> FALSE, value |-> [none |-> FALSE, ids |-> http.ids]]

\* process_queries: `if response and 'snapshot_id' in response`.
HasSnapshotId(response) == ~response.none /\ response.ids # {}


(***************************************************************************)
(* The locals of the three handlers before a run sets them.                *)
(***************************************************************************)
\* History of one Stage 2 run, per snapshot id: what save_response raised
\* ("ok" when it returned) and how mark_as_processed ended; "" while not called.
NoLog == [save |-> "", mark |-> ""]

S2Idle ==
    [snapshot_ids |-> <<>>, idx |-> 0, value |-> [none |-> TRUE, body |-> <<>>],
     data |-> "null", save_success |-> FALSE, error_type |-> "",
     total |-> 0, successful |-> 0, failed |-> 0, skipped |-> 0, db_errors |-> 0,
     duplicate_snapshots |-> 0, running_snapshots |-> 0,
     log |-> [j \in JobIds |-> NoLog]]

\* mark_calls: the snapshot ids this run called mark_email_extracted for;
\* fetch_calls: how often it called get_unextracted_responses; pages: the row
\* sets those calls returned, in order
S3Idle ==
    [total_count |-> 0, num_batches |-> 0, mark_calls |-> {}, fetch_calls |-> 0,
     pages |-> <<>>]

\* batches: the slices queries[from : from + len] handed to send_request
S1Idle ==
    [total_queries |-> 0, range_step |-> 0, batch_size |-> 0, i |-> 0,
     batch_count |-> 0, successful_snapshots |-> 0, failed_batches |-> 0,
     submitted_ids |-> <<>>, response |-> None, attempts |-> 0,
     last_http |-> "", batches |-> <<>>]

(***************************************************************************)
(* Stage 1: app.py process_queries around EmailScraperEngine.process_queries *)
(***************************************************************************)
\* statistics of process_queries
Statistics(l) ==
    [kind |-> "statistics", total_queries |-> l.total_queries,
     successful_snapshots |-> l.successful_snapshots,
     failed_batches |-> l.failed_batches, total_batches |-> l.batch_count,
     submitted_ids |-> l.submitted_ids]

\* app.py process_queries returns None without an API key or on any exception.
ReturnedNone == [kind |-> "None"]

\* `for i in range(0, total_queries, batch_size)`: the range is built once, from
\* the batch size the call was given; the loop ends when it is exhausted.
S1Advance(r, l) ==
    LET nxt == l.i + l.range_step IN
    IF nxt < l.total_queries
    THEN /\ s1' = [s1 EXCEPT ![r] = [l EXCEPT !.i = nxt]]
         /\ pc' = [pc EXCEPT ![r] = "s1_send"]
         /\ UNCHANGED result
    ELSE /\ s1' = [s1 EXCEPT ![r] = l]
         /\ pc' = [pc EXCEPT ![r] = "s1_done"]
         /\ result' = [result EXCEPT ![r] = Statistics(l)]

StartStage1(r, n, b, api_key) ==
    /\ pc[r] \in Returned
    /\ IF ~api_key
       THEN /\ s1' = [s1 EXCEPT ![r] = S1Idle]
            /\ pc' = [pc EXCEPT ![r] = "s1_done"]
            /\ result' = [result EXCEPT ![r] = ReturnedNone]
       ELSE LET l == [S1Idle EXCEPT !.total_queries = n, !.range_step = b,
                                    !.batch_size = b] IN
            IF 0 < n
            THEN /\ s1' = [s1 EXCEPT ![r] = l]
                 /\ pc' = [pc EXCEPT ![r] = "s1_send"]
                 /\ result' = [result EXCEPT ![r] = NoResult]
            ELSE /\ s1' = [s1 EXCEPT ![r] = l]
                 /\ pc' = [pc EXCEPT ![r] = "s1_done"]
                 /\ result' = [result EXCEPT ![r] = Statistics(l)]
    /\ s2' = [s2 EXCEPT ![r] = S2Idle]
    /\ s3' = [s3 EXCEPT ![r] = S3Idle]
    /\ UNCHANGED <<snapshot_table, response_table, email_table, provider, last_call>>

\* One loop iteration up to the response test: slice the batch, reassign
\* batch_size, call send_request.
S1Send(r) ==
    /\ pc[r] = "s1_send"
    /\ \E http \in HttpExchanges :
         LET l0 == s1[r]
             sr == send_request(http)
             l  == [l0 EXCEPT !.batch_count = @ + 1,
                              !.batch_size = Min(l0.batch_size, l0.total_queries - l0.i),
                              !.attempts = @ + 1,
                              !.response = sr.value,
                              !.last_http = http.kind,
                              !.batches = Append(@,
                                  [from |-> l0.i,
                                   len |-> Min(l0.batch_size, l0.total_queries - l0.i)])]
         IN
         /\ provider' = IF http.kind = "dict" /\ http.ids # {}
                        THEN [j \in JobIds |->
                                IF j \in http.ids /\ provider[j] = "none"
                                THEN "running" ELSE provider[j]]
                        ELSE provider
         /\ IF sr.raised
            THEN /\ s1' = [s1 EXCEPT ![r] = l]
                 /\ pc' = [pc EXCEPT ![r] = "s1_done"]
                 /\ result' = [result EXCEPT ![r] = ReturnedNone]
            ELSE IF HasSnapshotId(sr.value)
            THEN /\ s1' = [s1 EXCEPT ![r] = l]
                 /\ pc' = [pc EXCEPT ![r] = "s1_save"]
                 /\ UNCHANGED result
            ELSE S1Advance(r, [l EXCEPT !.failed_batches = @ + 1])
    /\ UNCHANGED <<snapshot_table, response_table, email_table, s2, s3, last_call>>

\* The rest of the iteration: save_snapshot and the counters.
S1Save(r) ==
    /\ pc[r] = "s1_save"
    /\ \E env \in StoreEnv, snapshot_id \in s1[r].response.ids :
         LET sv == save_snapshot(snapshot_table, snapshot_id, env)
             l  == s1[r]
         IN
         /\ snapshot_table' = sv.tbl
         /\ IF sv.ret
            THEN S1Advance(r, [l EXCEPT !.successful_snapshots = @ + 1,
                                        !.submitted_ids = Append(@, snapshot_id)])
            ELSE S1Advance(r, [l EXCEPT !.failed_batches = @ + 1])
    /\ UNCHANGED <<response_table, email_table, provider, s2, s3, last_call>>

(***************************************************************************)
(* Stage 2 collaborators                                                   *)
(***************************************************************************)

\* get_unprocessed_snapshots: ids with processed = false; [] on any exception.
\* The query has no ORDER BY, so the rows come in any order.
Perms(S) ==
    {f \in [1..Cardinality(S) -> S] : \A a, b \in 1..Cardinality(S) : a # b => f[a] # f[b]}

get_unprocessed_snapshots(tbl, env) ==
    IF env # "up" THEN {<<>>}
    ELSE Perms({j \in JobIds : tbl[j] = "pending"})

\* mark_as_processed: update ... eq(snapshot_id); True unless the call raises,
\* also when no row matched.
mark_as_processed(tbl, snapshot_id, env) ==
    IF env # "up" THEN [tbl |-> tbl, ret |-> FALSE]
    ELSE [tbl |-> [tbl EXCEPT ![snapshot_id] = IF @ = "absent" THEN @ ELSE "processed"],
          ret |-> TRUE]

\* an insert that overwrites the row it finds
save_response_upsert(tbl, snapshot_id, response_data, env) ==
    IF env # "up"
    THEN [tbl |-> tbl, success |-> FALSE,
          error_type |-> IF MentionsDuplicateOrUnique(env) THEN "duplicate" ELSE "error",
          exc |-> env]
    ELSE [tbl |-> [tbl EXCEPT ![snapshot_id] =
                     [present |-> TRUE, response |-> response_data,
                      is_email_extracted |-> FALSE]],
          success |-> TRUE, error_type |-> "", exc |-> "ok"]

\* save_response: insert {snapshot_id, response, is_email_extracted: False};
\* returns (True, '') | (False, 'duplicate') | (False, 'error').
save_response(tbl, snapshot_id, response_data, env) ==
    LET exc == InsertRaises(tbl[snapshot_id].present, env) IN
    IF exc = ""
    THEN [tbl |-> [tbl EXCEPT ![snapshot_id] =
                     [present |-> TRUE, response |-> response_data,
                      is_email_extracted |-> FALSE]],
          success |-> TRUE, error_type |-> "", exc |-> "ok"]
    ELSE IF MentionsDuplicateOrUnique(exc)
    THEN [tbl |-> tbl, success |-> FALSE, error_type |-> "duplicate", exc |-> exc]
    ELSE [tbl |-> tbl, success |-> FALSE, error_type |-> "error", exc |-> exc]

\* a select that leaves out the filter on is_email_extracted
get_unextracted_responses_unfiltered(tbl, env) ==
    IF env # "up" THEN {}
    ELSE {j \in JobIds : tbl[j].present}

\* get_unextracted_responses: select snapshot_id, response where
\* is_email_extracted = False; the rows found, [] when the call raises.
get_unextracted_responses(tbl, env) ==
    IF env # "up" THEN {}
    ELSE {j \in JobIds : tbl[j].present /\ ~tbl[j].is_email_extracted}

\* mark_email_extracted: update ... eq(snapshot_id); True unless the call raises
mark_email_extracted(tbl, snapshot_id, env) ==
    IF env # "up" THEN [tbl |-> tbl, ret |-> FALSE]
    ELSE [tbl |-> [tbl EXCEPT ![snapshot_id] =
                     IF @.present THEN [@ EXCEPT !.is_email_extracted = TRUE] ELSE @],
          ret |-> TRUE]

\* an insert into a table that accepts a second row with the same email
save_email_no_unique(tbl, email, env) ==
    IF env = "up"
    THEN [tbl |-> [tbl EXCEPT ![email] = @ + 1], success |-> TRUE, error_type |-> ""]
    ELSE [tbl |-> tbl, success |-> FALSE,
          error_type |-> IF MentionsDuplicateOrUnique(env) THEN "duplicate" ELSE "error"]

\* save_email: insert {email}; (True, '') | (False, 'duplicate') | (False, 'error')
save_email(tbl, email, env) ==
    LET exc == InsertRaises(tbl[email] > 0, env) IN
    IF exc = ""
    THEN [tbl |-> [tbl EXCEPT ![email] = @ + 1], success |-> TRUE, error_type |-> ""]
    ELSE IF MentionsDuplicateOrUnique(exc)
    THEN [tbl |-> tbl, success |-> FALSE, error_type |-> "duplicate"]
    ELSE [tbl |-> tbl, success |-> FALSE, error_type |-> "error"]

(***************************************************************************)
(* BrightdataClient.get_snapshot_data returns response.json() or None.     *)
(* A JSON body is a sequence of elements (the records of an array, the     *)
(* keys of an object), each truthy or falsy to Python.                     *)
(***************************************************************************)
Elems == {"null", "record"}
Truthy(e) == e = "record"
Bodies == UNION {[1..n -> Elems] : n \in 0..MaxBodyLen}

PollExchanges ==
    {[kind |-> k, body |-> <<>>] : k \in {"transport", "non_2xx", "bad_json"}}
    \cup {[kind |-> "json", body |-> b] : b \in Bodies}

get_snapshot_data(http) ==
    IF http.kind = "json" THEN [none |-> FALSE, body |-> http.body]
    ELSE [none |-> TRUE, body |-> <<>>]

\* the tuple assignment with its two targets exchanged
Unpack_swapped(value) ==
    IF value.none \/ Len(value.body) # 2
    THEN [raised |-> TRUE, data |-> "null", is_running |-> "null"]
    ELSE [raised |-> FALSE, data |-> value.body[2], is_running |-> value.body[1]]

\* app.py: `data, is_running = brightdata_client.get_snapshot_data(snapshot_id)`.
\* None raises TypeError, a body of any length but two raises ValueError.
Unpack(value) ==
    IF value.none \/ Len(value.body) # 2
    THEN [raised |-> TRUE, data |-> "null", is_running |-> "null"]
    ELSE [raised |-> FALSE, data |-> value.body[1], is_running |-> value.body[2]]

(***************************************************************************)
(* Stage 2: app.py process_unprocessed_snapshots                           *)
(***************************************************************************)
\* the tallies process_unprocessed_snapshots returns
NoApiKeyTally ==
    [kind |-> "tally", total |-> 0, successful |-> 0, failed |-> 0, skipped |-> 0,
     db_errors |-> 0, duplicate_snapshots |-> 0, message |-> "API key not provided"]

NothingPendingTally ==
    [kind |-> "tally", total |-> 0, successful |-> 0, failed |-> 0, skipped |-> 0,
     message |-> "No unprocessed snapshots found"]

Stage2ErrorTally ==
    [kind |-> "tally", total |-> 0, successful |-> 0, failed |-> 0, skipped |-> 0,
     db_errors |-> 0, duplicate_snapshots |-> 0, running_snapshots |-> 0,
     message |-> "Error"]

\* a tally that leaves out the running count, as the early returns do
Stage2Tally_without_running(l) ==
    [kind |-> "tally", total |-> l.total, successful |-> l.successful,
     failed |-> l.failed, skipped |-> l.skipped, db_errors |-> l.db_errors,
     duplicate_snapshots |-> l.duplicate_snapshots,
     running_snapshots |-> 0, message |-> "Processed"]

Stage2Tally(l) ==
    [kind |-> "tally", total |-> l.total, successful |-> l.successful,
     failed |-> l.failed, skipped |-> l.skipped, db_errors |-> l.db_errors,
     duplicate_snapshots |-> l.duplicate_snapshots,
     running_snapshots |-> l.running_snapshots, message |-> "Processed"]

\* end of one iteration of `for idx, snapshot_id in enumerate(snapshot_ids)`
S2Advance(r, l) ==
    IF l.idx < l.total
    THEN /\ s2' = [s2 EXCEPT ![r] = [l EXCEPT !.idx = @ + 1]]
         /\ pc' = [pc EXCEPT ![r] = "s2_poll"]
         /\ UNCHANGED result
    ELSE /\ s2' = [s2 EXCEPT ![r] = l]
         /\ pc' = [pc EXCEPT ![r] = "s2_done"]
         /\ result' = [result EXCEPT ![r] = Stage2Tally(l)]

StartStage2With(r, api_key, env) ==
    /\ pc[r] \in Returned
    /\ IF ~api_key
       THEN /\ s2' = [s2 EXCEPT ![r] = S2Idle]
            /\ pc' = [pc EXCEPT ![r] = "s2_done"]
            /\ result' = [result EXCEPT ![r] = NoApiKeyTally]
       ELSE \E ids \in get_unprocessed_snapshots(snapshot_table, env) :
              IF ids = <<>>
              THEN /\ s2' = [s2 EXCEPT ![r] = S2Idle]
                   /\ pc' = [pc EXCEPT ![r] = "s2_done"]
                   /\ result' = [result EXCEPT ![r] = NothingPendingTally]
              ELSE /\ s2' = [s2 EXCEPT ![r] =
                               [S2Idle EXCEPT !.snapshot_ids = ids, !.idx = 1,
                                              !.total = Len(ids)]]
                   /\ pc' = [pc EXCEPT ![r] = "s2_poll"]
                   /\ result' = [result EXCEPT ![r] = NoResult]
    /\ s1' = [s1 EXCEPT ![r] = S1Idle]
    /\ s3' = [s3 EXCEPT ![r] = S3Idle]
    /\ UNCHANGED <<snapshot_table, response_table, email_table, provider, last_call>>

StartStage2(r, api_key) == \E env \in StoreEnv : StartStage2With(r, api_key, env)

\* the snapshot id of the current iteration
S2Current(r) == s2[r].snapshot_ids[s2[r].idx]

\* the call brightdata_client.get_snapshot_data(snapshot_id)
S2PollWith(r, http) ==
    /\ pc[r] = "s2_poll"
    /\ s2' = [s2 EXCEPT ![r].value = get_snapshot_data(http)]
    /\ pc' = [pc EXCEPT ![r] = "s2_unpack"]
    /\ UNCHANGED <<snapshot_table, response_table, email_table, provider, s1, s3, result, last_call>>

S2Poll(r) == \E http \in PollExchanges : S2PollWith(r, http)

\* `data, is_running = <value>` and the three-way branch on it; an exception
\* leaves the loop for the handler's except clause.
S2Unpack(r) ==
    /\ pc[r] = "s2_unpack"
    /\ LET u == Unpack(s2[r].value)
           l == [s2[r] EXCEPT !.value = S2Idle.value]
       IN
       IF u.raised
       THEN /\ s2' = [s2 EXCEPT ![r] = l]
            /\ pc' = [pc EXCEPT ![r] = "s2_done"]
            /\ result' = [result EXCEPT ![r] = Stage2ErrorTally]
       ELSE IF Truthy(u.is_running)
       THEN S2Advance(r, [l EXCEPT !.running_snapshots = @ + 1])
       ELSE IF Truthy(u.data)
       THEN /\ s2' = [s2 EXCEPT ![r] = [l EXCEPT !.data = u.data]]
            /\ pc' = [pc EXCEPT ![r] = "s2_save"]
            /\ UNCHANGED result
       ELSE S2Advance(r, [l EXCEPT !.skipped = @ + 1])
    /\ UNCHANGED <<snapshot_table, response_table, email_table, provider, s1, s3, last_call>>

\* save_response and the branch on (save_success, error_type)
S2SaveWith(r, env) ==
    /\ pc[r] = "s2_save"
    /\   LET id == S2Current(r)
             sr == save_response(response_table, id, s2[r].data, env)
             l  == [s2[r] EXCEPT !.save_success = sr.success,
                                 !.error_type = sr.error_type,
                                 !.data = "null",
                                 !.log[id].save = sr.exc]
         IN
         /\ response_table' = sr.tbl
         /\ IF sr.success
            THEN /\ s2' = [s2 EXCEPT ![r] = l]
                 /\ pc' = [pc EXCEPT ![r] = "s2_mark"]
                 /\ UNCHANGED result
            ELSE IF sr.error_type = "duplicate"
            THEN /\ s2' = [s2 EXCEPT ![r] = [l EXCEPT !.duplicate_snapshots = @ + 1]]
                 /\ pc' = [pc EXCEPT ![r] = "s2_mark"]
                 /\ UNCHANGED result
            ELSE S2Advance(r, [l EXCEPT !.failed = @ + 1, !.db_errors = @ + 1])
    /\ UNCHANGED <<snapshot_table, email_table, provider, s1, s3, last_call>>

S2Save(r) == \E env \in StoreEnv : S2SaveWith(r, env)

\* mark_as_processed: counted after a successful save, ignored after a duplicate
S2MarkWith(r, env) ==
    /\ pc[r] = "s2_mark"
    /\   LET id == S2Current(r)
             mk == mark_as_processed(snapshot_table, id, env)
             l  == [s2[r] EXCEPT !.log[id].mark = IF mk.ret THEN "ok" ELSE "fault"]
         IN
         /\ snapshot_table' = mk.tbl
         /\ IF ~l.save_success
            THEN S2Advance(r, l)
            ELSE IF mk.ret
            THEN S2Advance(r, [l EXCEPT !.successful = @ + 1])
            ELSE S2Advance(r, [l EXCEPT !.failed = @ + 1, !.db_errors = @ + 1])
    /\ UNCHANGED <<response_table, email_table, provider, s1, s3, last_call>>

S2Mark(r) == \E env \in StoreEnv : S2MarkWith(r, env)

\* The provider completes a job it was given.
ProviderFinish(j) ==
    /\ provider[j] = "running"
    /\ provider' = [provider EXCEPT ![j] = "finished"]
    /\ UNCHANGED <<snapshot_table, response_table, email_table, pc, s1, s2, s3, result, last_call>>

(***************************************************************************)
(* Stage 3: app.py process_all_responses_for_emails(total_count).          *)
(* The first statement of the loop body calls                              *)
(* get_unextracted_responses(limit=BATCH_SIZE, offset=0); the method takes *)
(* no parameters, so the call raises TypeError before any row is fetched   *)
(* and the handler's except clause returns the error tally.  The rest of   *)
(* the loop body is never executed.                                        *)
(***************************************************************************)
Stage3Tally(message) ==
    [kind |-> "tally", total |-> 0, successful |-> 0, failed |-> 0,
     total_emails |-> 0, duplicate_emails |-> 0, db_errors |-> 0, message |-> message]

\* The parameters of SupabaseClient.get_unextracted_responses besides self.
get_unextracted_responses_params == {}

\* Python binds a call's keyword arguments to parameters of those names.
CallRaisesTypeError(params, keywords) == ~(keywords \subseteq params)

\* get_unextracted_responses called with the given keyword arguments
call_get_unextracted_responses(tbl, keywords, env) ==
    IF CallRaisesTypeError(get_unextracted_responses_params, keywords)
    THEN [raised |-> TRUE, rows |-> {}]
    ELSE [raised |-> FALSE, rows |-> get_unextracted_responses(tbl, env)]

StartStage3(r, total_count) ==
    /\ pc[r] \in Returned
    /\ LET l == [S3Idle EXCEPT !.total_count = total_count,
                               !.num_batches = CeilDiv(total_count, BATCH_SIZE)] IN
       /\ s3' = [s3 EXCEPT ![r] = l]
       /\ IF l.num_batches = 0
          THEN /\ pc' = [pc EXCEPT ![r] = "s3_done"]
               /\ result' = [result EXCEPT ![r] = Stage3Tally("Processed")]
          ELSE /\ pc' = [pc EXCEPT ![r] = "s3_fetch"]
               /\ result' = [result EXCEPT ![r] = NoResult]
    /\ s1' = [s1 EXCEPT ![r] = S1Idle]
    /\ s2' = [s2 EXCEPT ![r] = S2Idle]
    /\ UNCHANGED <<snapshot_table, response_table, email_table, provider, last_call>>

\* a fetch that is tried again when it raises
S3Fetch_retry(r) ==
    /\ pc[r] = "s3_fetch"
    /\ CallRaisesTypeError(get_unextracted_responses_params, {"limit", "offset"})
    /\ s3' = [s3 EXCEPT ![r].fetch_calls = @ + 1]
    /\ UNCHANGED <<snapshot_table, response_table, email_table, provider, pc, s1, s2, result,
                   last_call>>

\* rows = supabase_client.get_unextracted_responses(limit=BATCH_SIZE, offset=0)
S3Fetch(r) ==
    /\ pc[r] = "s3_fetch"
    /\ CallRaisesTypeError(get_unextracted_responses_params, {"limit", "offset"})
    /\ s3' = [s3 EXCEPT ![r].fetch_calls = @ + 1]
    /\ pc' = [pc EXCEPT ![r] = "s3_done"]
    /\ result' = [result EXCEPT ![r] = Stage3Tally("Error")]
    /\ UNCHANGED <<snapshot_table, response_table, email_table, provider, s1, s2, last_call>>

(***************************************************************************)
(* Extraction: app.py extract_emails_from_json / extract_emails_from_text. *)
(* Text is a sequence of characters; "sp" is a space, "LF" a line feed,    *)
(* "bs" a backslash, "quote" a double quote, every other character a       *)
(* letter.                                                                 *)
(***************************************************************************)
MaxItems == 3          \* most addresses in the text of a payload

Separators == {"sp", "LF"}
Letter(c) == c \notin {"@", ".", "sp", "LF", "bs", "quote"}

\* the characters of the addresses of the model
Chars(address) ==
    IF address = "a@b.com" THEN <<"a", "@", "b", ".", "c", "o", "m">>
    ELSE <<"c", "@", "d", ".", "o", "r", "g">>

\* the character classes of email_pattern and the word characters of \b
IsLocal(c) == Letter(c) \/ c = "."        \* [A-Za-z0-9._%+-]
IsDomain(c) == Letter(c) \/ c = "."       \* [A-Za-z0-9.-]
IsTld(c) == Letter(c)                     \* [A-Z|a-z]
IsWord(c) == Letter(c)                    \* \w

\* \b before position i of t
WordBoundary(t, i) ==
    (i > 1 /\ IsWord(t[i - 1])) # (i <= Len(t) /\ IsWord(t[i]))

Max(S) == CHOOSE x \in S : \A y \in S : y <= x

\* where one match of email_pattern that starts at position i ends, 0 if
\* there is none: the quantifiers are greedy, so the longest domain that lets
\* the rest match and then the longest top-level part.
MatchAt(t, i) ==
    LET n == Len(t)
        local_end == Max({e \in (i - 1)..n : \A k \in i..e : IsLocal(t[k])})
        dom_start == local_end + 2
        dom_max == Max({e \in (dom_start - 1)..n : \A k \in dom_start..e : IsDomain(t[k])})
        ends(d) == {e \in (d + 3)..n :
                      /\ \A k \in (d + 2)..e : IsTld(t[k])
                      /\ WordBoundary(t, e + 1)}
        doms == {d \in dom_start..dom_max : d + 1 <= n /\ t[d + 1] = "." /\ ends(d) # {}}
    IN
    IF /\ WordBoundary(t, i)
       /\ local_end >= i /\ local_end < n /\ t[local_end + 1] = "@"
       /\ doms # {}
    THEN Max(ends(Max(doms)))
    ELSE 0

\* re.findall(email_pattern, text): the non-overlapping matches, left to right
RECURSIVE findall(_, _)
findall(t, i) ==
    IF i > Len(t) THEN <<>>
    ELSE LET e == MatchAt(t, i) IN
         IF e > 0 THEN <<SubSeq(t, i, e)>> \o findall(t, e + 1)
         ELSE findall(t, i + 1)

\* json.dumps of a string: quotes around it, a line feed written as \n
RECURSIVE json_escape(_)
json_escape(s) ==
    IF s = <<>> THEN <<>>
    ELSE (IF Head(s) = "LF" THEN <<"bs", "n">> ELSE <<Head(s)>>) \o json_escape(Tail(s))

json_dumps(s) == <<"quote">> \o json_escape(s) \o <<"quote">>

\* extract_emails_from_text: list(set(re.findall(email_pattern, text))); the
\* lists it can return (a set is listed in no particular order)
extract_emails_from_text(text) ==
    LET emails == findall(text, 1) IN
    Perms({emails[k] : k \in 1..Len(emails)})

extract_emails_from_json(json_data) == extract_emails_from_text(json_dumps(json_data))

(***************************************************************************)
(* Stage 3, the body of the row loop of process_all_responses_for_emails:  *)
(* extract the emails of a row's response, save each, mark the row.        *)
(***************************************************************************)
\* the address a matched text spells
AddressOf(chars) == CHOOSE a \in Addresses : Chars(a) = chars

\* `for email in emails: success, error_type = save_email(email)` with the
\* three counters of the batch; envs[k] is what the k-th call meets
RECURSIVE SaveEmails(_, _, _)
SaveEmails(tbl, emails, envs) ==
    IF emails = <<>>
    THEN [tbl |-> tbl, batch_emails |-> 0, batch_duplicates |-> 0, batch_errors |-> 0]
    ELSE LET c    == save_email(tbl, AddressOf(Head(emails)), Head(envs))
             rest == SaveEmails(c.tbl, Tail(emails), Tail(envs))
         IN [rest EXCEPT
               !.batch_emails = @ + (IF c.success THEN 1 ELSE 0),
               !.batch_duplicates =
                   @ + (IF ~c.success /\ c.error_type = "duplicate" THEN 1 ELSE 0),
               !.batch_errors =
                   @ + (IF ~c.success /\ c.error_type # "duplicate" THEN 1 ELSE 0)]

\* One pass of the loop body for the row of snapshot id j: a row without a
\* response is counted as failed and left alone; otherwise its emails are
\* saved one by one and the row is marked, whatever the saves returned.
S3Row(r, j) ==
    /\ response_table[j].present /\ ~response_table[j].is_email_extracted
    /\ IF response_table[j].response = <<>>
       THEN /\ last_call' = [op |-> "row", key |-> ToString(j), ret |-> "skipped",
                             rows |-> {}, batch_errors |-> 1]
            /\ UNCHANGED <<response_table, email_table, s3>>
       ELSE \E emails \in extract_emails_from_json(response_table[j].response) :
            \E envs \in [1..Len(emails) -> StoreEnv], mark_env \in StoreEnv :
              LET sv == SaveEmails(email_table, emails, envs)
                  mk == mark_email_extracted(response_table, j, mark_env)
              IN
              /\ email_table' = sv.tbl
              /\ response_table' = mk.tbl
              /\ s3' = [s3 EXCEPT ![r].mark_calls = @ \cup {j}]
              /\ last_call' = [op |-> "row", key |-> ToString(j), ret |-> BoolRet(mk.ret),
                               rows |-> {},
                               batch_errors |-> sv.batch_errors + (IF mk.ret THEN 0 ELSE 1)]
    /\ UNCHANGED <<snapshot_table, provider, pc, s1, s2, result>>

(***************************************************************************)
(* Stage 4: SupabaseClient.get_emails_by_date.  A date is a month and a    *)
(* day, created_at adds the minute of the day; the calendar of the model   *)
(* has Months months of DaysPerMonth days.                                 *)
(***************************************************************************)
Months == 2
DaysPerMonth == 2

Dates == [month : 1..Months, day : 1..DaysPerMonth]
NoDate == [month |-> 0, day |-> 0]        \* None or ''
\* 00:00 and 23:59
Timestamps == [month : 1..Months, day : 1..DaysPerMonth, minute : {0, 1439}]
NoEmailRow == [month |-> 0, day |-> 0, minute |-> 0]

\* the end date used as it is
SameDay(date) == date

\* datetime.strptime(end_date, '%Y-%m-%d') + timedelta(days=1), formatted back
AddOneDay(date) ==
    IF date.day < DaysPerMonth THEN [date EXCEPT !.day = @ + 1]
    ELSE [month |-> date.month + 1, day |-> 1]

\* created_at >= 'YYYY-MM-DD' and created_at < 'YYYY-MM-DD' as the database
\* compares a timestamp with a date: the date is midnight of that day
GteDate(created_at, date) ==
    \/ created_at.month > date.month
    \/ created_at.month = date.month /\ created_at.day > date.day
    \/ created_at.month = date.month /\ created_at.day = date.day /\ created_at.minute >= 0

LtDate(created_at, date) ==
    \/ created_at.month < date.month
    \/ created_at.month = date.month /\ created_at.day < date.day
    \/ created_at.month = date.month /\ created_at.day = date.day /\ created_at.minute < 0

Later(a, b) ==
    \/ a.month > b.month
    \/ a.month = b.month /\ a.day > b.day
    \/ a.month = b.month /\ a.day = b.day /\ a.minute >= b.minute

\* a query that still answers when the store cannot be read
get_emails_by_date_unguarded(tbl, start_date, end_date, env) ==
    LET rows == {a \in DOMAIN tbl :
                   /\ tbl[a] # NoEmailRow
                   /\ (start_date # NoDate => GteDate(tbl[a], start_date))
                   /\ (end_date # NoDate => LtDate(tbl[a], AddOneDay(end_date)))}
    IN {l \in Perms(rows) :
          \A i, k \in 1..Len(l) : i < k => Later(tbl[l[i]], tbl[l[k]])}

\* get_emails_by_date: the lists it can return, rows ordered by created_at
\* descending; [] when the call raises.  tbl maps an address to the
\* created_at of its row, NoEmailRow when it has none.
get_emails_by_date(tbl, start_date, end_date, env) ==
    IF env # "up" THEN {<<>>}
    ELSE LET rows == {a \in DOMAIN tbl :
                        /\ tbl[a] # NoEmailRow
                        /\ (start_date # NoDate => GteDate(tbl[a], start_date))
                        /\ (end_date # NoDate => LtDate(tbl[a], AddOneDay(end_date)))}
         IN {l \in Perms(rows) :
               \A i, k \in 1..Len(l) : i < k => Later(tbl[l[i]], tbl[l[k]])}

(***************************************************************************)
(* Specifications                                                          *)
(***************************************************************************)
Init ==
    /\ snapshot_table = [j \in JobIds |-> "absent"]
    /\ response_table = [j \in JobIds |-> NoRow]
    /\ email_table = NoEmails
    /\ provider = [j \in JobIds |-> "none"]
    /\ pc = [r \in Runs |-> "idle"]
    /\ s1 = [r \in Runs |-> S1Idle]
    /\ s2 = [r \in Runs |-> S2Idle]
    /\ s3 = [r \in Runs |-> S3Idle]
    /\ result = [r \in Runs |-> NoResult]
    /\ last_call = NoCall

Stage1Steps(r, maxn) ==
    \/ \E n \in 0..maxn, b \in MinBatchSize..MaxBatchSize, k \in BOOLEAN :
         StartStage1(r, n, b, k)
    \/ S1Send(r)
    \/ S1Save(r)

Stage2Steps(r) ==
    \/ \E k \in BOOLEAN : StartStage2(r, k)
    \/ S2Poll(r)
    \/ S2Unpack(r)
    \/ S2Save(r)
    \/ S2Mark(r)

Stage3Steps(r) ==
    \/ \E c \in 0..NumJobs : StartStage3(r, c)
    \/ S3Fetch(r)

\* The pipeline as one session drives it: one handler at a time, any stage in
\* any order, the provider working in the background.
Next ==
    \/ Stage1Steps("A", MaxQueries)
    \/ Stage2Steps("A")
    \/ Stage3Steps("A")
    \/ \E j \in JobIds : ProviderFinish(j)

Spec == Init /\ [][Next]_vars

\* The session invokes Stage 2 and Stage 3 again and again, every started
\* handler runs on, the provider finishes every job and again and again
\* answers a poll with a finished job's payload, and the store again and
\* again answers without a fault.
GoodPoll == [kind |-> "json", body |-> <<"record", "null">>]

Fairness ==
    /\ SF_vars(StartStage2With("A", TRUE, "up"))
    /\ SF_vars(\E c \in 1..NumJobs : StartStage3("A", c))
    /\ WF_vars(S1Send("A")) /\ WF_vars(S1Save("A"))
    /\ WF_vars(S2Poll("A")) /\ WF_vars(S2Unpack("A"))
    /\ WF_vars(S2Save("A")) /\ WF_vars(S2Mark("A"))
    /\ WF_vars(S3Fetch("A"))
    /\ \A j \in JobIds : WF_vars(ProviderFinish(j))
    /\ SF_vars(S2PollWith("A", GoodPoll))
    /\ SF_vars(S2SaveWith("A", "up"))
    /\ SF_vars(S2MarkWith("A", "up"))

FairSpec == Spec /\ Fairness

(***************************************************************************)
(* The store on its own: any client calling the SupabaseClient operations  *)
(* in any order, which covers every interleaving of stage runs since the   *)
(* handlers reach the tables through these operations only.                *)
(***************************************************************************)
RetOf(success, error_type) == IF success THEN "success" ELSE error_type
StoreUnchanged == UNCHANGED <<provider, pc, s1, s2, s3, result>>

CallSaveSnapshot(j, env) ==
    LET c == save_snapshot(snapshot_table, j, env) IN
    /\ snapshot_table' = c.tbl
    /\ last_call' = [op |-> "save_snapshot", key |-> ToString(j), ret |-> BoolRet(c.ret), rows |-> {}]
    /\ UNCHANGED <<response_table, email_table>>
    /\ StoreUnchanged

CallMarkAsProcessed(j, env) ==
    LET c == mark_as_processed(snapshot_table, j, env) IN
    /\ snapshot_table' = c.tbl
    /\ last_call' = [op |-> "mark_as_processed", key |-> ToString(j), ret |-> BoolRet(c.ret), rows |-> {}]
    /\ UNCHANGED <<response_table, email_table>>
    /\ StoreUnchanged

CallSaveResponse(j, data, env) ==
    LET c == save_response(response_table, j, data, env) IN
    /\ response_table' = c.tbl
    /\ last_call' = [op |-> "save_response", key |-> ToString(j),
                     ret |-> RetOf(c.success, c.error_type), rows |-> {}]
    /\ UNCHANGED <<snapshot_table, email_table>>
    /\ StoreUnchanged

CallMarkEmailExtracted(j, env) ==
    LET c == mark_email_extracted(response_table, j, env) IN
    /\ response_table' = c.tbl
    /\ last_call' = [op |-> "mark_email_extracted", key |-> ToString(j),
                     ret |-> BoolRet(c.ret), rows |-> {}]
    /\ UNCHANGED <<snapshot_table, email_table>>
    /\ StoreUnchanged

CallSaveEmail(email, env) ==
    LET c == save_email(email_table, email, env) IN
    /\ email_table' = c.tbl
    /\ last_call' = [op |-> "save_email", key |-> email,
                     ret |-> RetOf(c.success, c.error_type), rows |-> {}]
    /\ UNCHANGED <<snapshot_table, response_table>>
    /\ StoreUnchanged

CallGetUnextractedResponses(env) ==
    /\ last_call' = [op |-> "get_unextracted_responses", key |-> "", ret |-> "rows",
                     rows |-> get_unextracted_responses(response_table, env)]
    /\ UNCHANGED <<snapshot_table, response_table, email_table>>
    /\ StoreUnchanged

NextStore ==
    \/ \E env \in StoreEnv : CallGetUnextractedResponses(env)
    \/ \E j \in JobIds, env \in StoreEnv : CallSaveSnapshot(j, env)
    \/ \E j \in JobIds, env \in StoreEnv : CallMarkAsProcessed(j, env)
    \/ \E j \in JobIds, env \in StoreEnv : CallSaveResponse(j, "record", env)
    \/ \E j \in JobIds, env \in StoreEnv : CallMarkEmailExtracted(j, env)
    \/ \E e \in Addresses, env \in StoreEnv : CallSaveEmail(e, env)

SpecStore == Init /\ [][NextStore]_vars

\* Stage 1 alone, over longer query lists.
NextStage1 == Stage1Steps("A", MaxStage1Queries)

SpecStage1 == Init /\ [][NextStage1]_vars

\* Two sessions running Stage 2 at once over the jobs a Stage 1 run created
\* and the provider has completed.
InitConcurrent ==
    /\ snapshot_table = [j \in JobIds |-> IF j \in ConcurrentJobs THEN "pending" ELSE "absent"]
    /\ response_table = [j \in JobIds |-> NoRow]
    /\ email_table = NoEmails
    /\ provider = [j \in JobIds |-> IF j \in ConcurrentJobs THEN "finished" ELSE "none"]
    /\ pc = [r \in Runs |-> "idle"]
    /\ s1 = [r \in Runs |-> S1Idle]
    /\ s2 = [r \in Runs |-> S2Idle]
    /\ s3 = [r \in Runs |-> S3Idle]
    /\ result = [r \in Runs |-> NoResult]
    /\ last_call = NoCall

NextConcurrent == \E r \in Runs : Stage2Steps(r)

SpecConcurrent == InitConcurrent /\ [][NextConcurrent]_vars

\* One session running Stage 2 again and again over jobs a Stage 1 run
\* created, the provider still working on them.
InitStage2 ==
    /\ snapshot_table = [j \in JobIds |-> "pending"]
    /\ response_table = [j \in JobIds |-> NoRow]
    /\ email_table = NoEmails
    /\ provider = [j \in JobIds |-> "running"]
    /\ pc = [r \in Runs |-> "idle"]
    /\ s1 = [r \in Runs |-> S1Idle]
    /\ s2 = [r \in Runs |-> S2Idle]
    /\ s3 = [r \in Runs |-> S3Idle]
    /\ result = [r \in Runs |-> NoResult]
    /\ last_call = NoCall

NextStage2 ==
    \/ Stage2Steps("A")
    \/ \E j \in JobIds : ProviderFinish(j)

SpecStage2 == InitStage2 /\ [][NextStage2]_vars

\* Extraction on its own: a payload is a JSON string holding addresses, each
\* after a space or a line feed, and extract_emails_from_json is called on it
\* twice.
MaxExtractCalls == 2

PayloadItems ==
    UNION {[1..n -> [sep : Separators, address : Addresses]] : n \in 0..MaxItems}

RECURSIVE PayloadText(_)
PayloadText(items) ==
    IF items = <<>> THEN <<>>
    ELSE <<Head(items).sep>> \o Chars(Head(items).address) \o PayloadText(Tail(items))

InitExtract ==
    /\ snapshot_table = [j \in JobIds |-> "absent"]
    /\ response_table = [j \in JobIds |-> NoRow]
    /\ email_table = NoEmails
    /\ provider = [j \in JobIds |-> "none"]
    /\ pc = [r \in Runs |-> "idle"]
    /\ s1 = [r \in Runs |-> S1Idle]
    /\ s2 = [r \in Runs |-> S2Idle]
    /\ s3 = [r \in Runs |-> S3Idle]
    /\ result = [r \in Runs |-> NoResult]
    /\ \E items \in PayloadItems :
         last_call = [op |-> "", key |-> PayloadText(items), items |-> items,
                      ret |-> <<>>, first |-> <<>>, calls |-> 0, rows |-> {}]

CallExtractEmailsFromJson ==
    /\ last_call.calls < MaxExtractCalls
    /\ \E emails \in extract_emails_from_json(last_call.key) :
         last_call' = [last_call EXCEPT !.op = "extract_emails_from_json",
                                        !.ret = emails,
                                        !.first = IF last_call.calls = 0 THEN emails ELSE @,
                                        !.calls = @ + 1]
    /\ UNCHANGED <<snapshot_table, response_table, email_table>>
    /\ StoreUnchanged

NextExtract == CallExtractEmailsFromJson

SpecExtract == InitExtract /\ [][NextExtract]_vars

\* The row loop on its own: every job has a stored, unextracted response
\* whose text holds addresses separated by spaces, and the loop body is run
\* for any row that is still unextracted.
SpacedPayloads == {PayloadText(items) : items \in {p \in PayloadItems :
                                                    \A k \in 1..Len(p) : p[k].sep = "sp"}}

InitRows ==
    /\ snapshot_table = [j \in JobIds |-> "processed"]
    /\ \E text \in SpacedPayloads :
         response_table = [j \in JobIds |->
                             [present |-> TRUE, response |-> text,
                              is_email_extracted |-> FALSE]]
    /\ email_table = NoEmails
    /\ provider = [j \in JobIds |-> "finished"]
    /\ pc = [r \in Runs |-> "idle"]
    /\ s1 = [r \in Runs |-> S1Idle]
    /\ s2 = [r \in Runs |-> S2Idle]
    /\ s3 = [r \in Runs |-> S3Idle]
    /\ result = [r \in Runs |-> NoResult]
    /\ last_call = NoCall

NextRows == \E j \in JobIds : S3Row("A", j)

SpecRows == InitRows /\ [][NextRows]_vars

\* Stage 4 on its own: emails stored at some times, one date-range query.
InitQuery ==
    /\ snapshot_table = [j \in JobIds |-> "absent"]
    /\ response_table = [j \in JobIds |-> NoRow]
    /\ email_table = NoEmails
    /\ provider = [j \in JobIds |-> "none"]
    /\ pc = [r \in Runs |-> "idle"]
    /\ s1 = [r \in Runs |-> S1Idle]
    /\ s2 = [r \in Runs |-> S2Idle]
    /\ s3 = [r \in Runs |-> S3Idle]
    /\ result = [r \in Runs |-> NoResult]
    /\ \E tbl \in [Addresses -> Timestamps \cup {NoEmailRow}] :
         last_call = [op |-> "", key |-> tbl, start_date |-> NoDate, end_date |-> NoDate,
                      env |-> "", ret |-> <<>>, rows |-> {}]

CallGetEmailsByDate(start_date, end_date, env) ==
    /\ last_call.op = ""
    /\ \E l \in get_emails_by_date(last_call.key, start_date, end_date, env) :
         last_call' = [last_call EXCEPT !.op = "get_emails_by_date",
                                        !.start_date = start_date,
                                        !.end_date = end_date,
                                        !.env = env,
                                        !.ret = l]
    /\ UNCHANGED <<snapshot_table, response_table, email_table>>
    /\ StoreUnchanged

NextQuery ==
    \E start_date, end_date \in Dates \cup {NoDate}, env \in StoreEnv :
        CallGetEmailsByDate(start_date, end_date, env)

SpecQuery == InitQuery /\ [][NextQuery]_vars

\* One session running Stage 3 again and again, for any row count its caller
\* hands it, over responses that another session's Stage 2 keeps storing.  A
\* started run runs on.
Stage3Counts == {0, 1, BATCH_SIZE, BATCH_SIZE + 1, 2 * BATCH_SIZE + 1}

InitStage3 ==
    /\ snapshot_table = [j \in JobIds |-> "pending"]
    /\ response_table = [j \in JobIds |-> NoRow]
    /\ email_table = NoEmails
    /\ provider = [j \in JobIds |-> "finished"]
    /\ pc = [r \in Runs |-> "idle"]
    /\ s1 = [r \in Runs |-> S1Idle]
    /\ s2 = [r \in Runs |-> S2Idle]
    /\ s3 = [r \in Runs |-> S3Idle]
    /\ result = [r \in Runs |-> NoResult]
    /\ last_call = NoCall

NextStage3 ==
    \/ \E c \in Stage3Counts : StartStage3("A", c)
    \/ S3Fetch("A")
    \/ \E j \in JobIds, env \in StoreEnv : CallSaveResponse(j, "record", env)

SpecStage3 == InitStage3 /\ [][NextStage3]_vars /\ WF_vars(S3Fetch("A"))

(***************************************************************************)
(* Properties                                                              *)
(***************************************************************************)
\* A poll that came back with the payload of a finished job.
PolledPayload(r) ==
    /\ pc[r] = "s2_unpack"
    /\ ~s2[r].value.none
    /\ \E k \in 1..Len(s2[r].value.body) : Truthy(s2[r].value.body[k])
    /\ provider[S2Current(r)] = "finished"

\* C1 (a): a pending job whose poll returns a payload has save_response
\* called for it next.
C1_SaveCalledForPayload ==
    [][\A r \in Runs : PolledPayload(r) => pc'[r] = "s2_save"]_vars

\* C1 (b): after save_response, mark_as_processed is called if and only if
\* the save returned Success or Duplicate.
C1_MarkIffSavedOrDuplicate ==
    [][\A r \in Runs : pc[r] = "s2_save" /\ pc'[r] # "s2_save" =>
          (pc'[r] = "s2_mark" <=>
             (s2'[r].save_success \/ s2'[r].error_type = "duplicate"))]_vars

\* C1 (c): a job whose save_response returned Error is still Pending when the
\* run ends and the returned tally counts it as failed.
C1_ErrorLeavesPendingAndCounted ==
    \A r \in Runs : \A j \in JobIds :
        pc[r] = "s2_done" /\ s2[r].log[j].save = "Fault" =>
            snapshot_table[j] = "pending" /\ result[r].failed >= 1

\* C1: Stage 2, Completed branch: for every pending job whose poll returns a
\* payload save_response is called first, mark_as_processed is then called if
\* and only if the save returned Success or Duplicate, and after an Error the
\* job is still Pending at the end of the run and is counted as failed.
C1_CompletedBranch ==
    /\ C1_SaveCalledForPayload
    /\ C1_MarkIffSavedOrDuplicate
    /\ []C1_ErrorLeavesPendingAndCounted

\* C2: in every reachable state a job whose status is Processed has a
\* response stored under the same snapshot id.
C2_ProcessedHasResponse ==
    \A j \in JobIds : snapshot_table[j] = "processed" => response_table[j].present

\* what save_response returned, from what the insert raised
SaveReturn(exc) ==
    IF exc = "ok" THEN "success"
    ELSE IF MentionsDuplicateOrUnique(exc) THEN "duplicate"
    ELSE "error"

\* Both sessions' runs called save_response for job j and both calls reached
\* the table (neither met a storage fault).
BothSaved(j) ==
    /\ s2["A"].log[j].save \in {"ok", "UniqueViolation"}
    /\ s2["B"].log[j].save \in {"ok", "UniqueViolation"}

BothDone == pc["A"] = "s2_done" /\ pc["B"] = "s2_done"

C3_AtMostOneSuccessState ==
    \A j \in JobIds :
        /\ ~(s2["A"].log[j].save = "ok" /\ s2["B"].log[j].save = "ok")
        /\ (BothSaved(j) => response_table[j].present)
        /\ \A r \in Runs :
              pc[r] = "s2_done" /\ SaveReturn(s2[r].log[j].save) \in {"success", "duplicate"}
                /\ s2[r].log[j].save # ""
                => s2[r].log[j].mark # ""
        /\ (BothDone /\ BothSaved(j)
              /\ (s2["A"].log[j].mark = "ok" \/ s2["B"].log[j].mark = "ok")
              => snapshot_table[j] = "processed")

\* the step part of C3 as amended: a save_response call that reaches the table
\* returns Success exactly when no response was stored for the job before it
C3_SuccessIffNoRowBefore ==
    [][\A r \in Runs : pc[r] = "s2_save" /\ pc'[r] # "s2_save"
          /\ s2'[r].log[S2Current(r)].save \in {"ok", "UniqueViolation"}
          => (s2'[r].log[S2Current(r)].save = "ok"
                <=> ~response_table[S2Current(r)].present)]_vars

C4_UnfinishedCountsAsRunning ==
    [][\A r \in Runs :
          pc[r] = "s2_unpack" /\ pc'[r] # "s2_unpack" /\ ~s2[r].value.none
            /\ provider[S2Current(r)] = "running"
          => /\ s2'[r].running_snapshots = s2[r].running_snapshots + 1
             /\ pc'[r] # "s2_save"
             /\ result'[r] # Stage2ErrorTally
             /\ snapshot_table'[S2Current(r)] = "pending"]_vars

\* C5: per-item failure isolation: a run that entered a stage loop leaves it
\* only when the work list is exhausted, and returns the tally of that loop.
C5_LoopsRunToTheEnd ==
    \A r \in Runs :
        /\ (pc[r] = "s1_done" /\ s1[r].total_queries > 0
              => /\ result[r].kind = "statistics"
                 /\ result[r].total_batches
                      = CeilDiv(s1[r].total_queries, s1[r].range_step))
        /\ (pc[r] = "s2_done" /\ s2[r].total > 0
              => /\ result[r].message = "Processed"
                 /\ s2[r].idx = s2[r].total)
        /\ (pc[r] = "s3_done" /\ s3[r].num_batches > 0
              => result[r].message = "Processed")

C7_JobsConverge ==
    \A j \in JobIds : snapshot_table[j] = "pending" ~> snapshot_table[j] = "processed"

\* the Stage 3 half of C7: every stored response eventually becomes extracted
C7_ResponsesConverge ==
    \A j \in JobIds :
        response_table[j].present ~>
            (response_table[j].present /\ response_table[j].is_email_extracted)

\* C7: re-entrancy convergence: when the stages are invoked again and again
\* and the provider eventually answers every poll, every job eventually
\* becomes Processed and every response eventually becomes extracted.
C7_Convergence == C7_JobsConverge /\ C7_ResponsesConverge

\* C8: status flags never regress: no step takes a Processed job back to
\* Pending (or removes it) and no step takes an extracted response back to
\* unextracted (or removes it), whatever store operation is called on it.
C8_FlagsNeverRegress ==
    [][\A j \in JobIds :
          /\ (snapshot_table[j] = "processed" => snapshot_table'[j] = "processed")
          /\ (response_table[j].present /\ response_table[j].is_email_extracted
                => response_table'[j].present /\ response_table'[j].is_email_extracted)]_vars

\* C8 witness: save_snapshot was just called for a job id that is already
\* Processed and whose response is already extracted; it returned False and
\* both flags stand.
C8_Witness ==
    \E j \in JobIds :
        /\ last_call = [op |-> "save_snapshot", key |-> ToString(j), ret |-> "False", rows |-> {}]
        /\ snapshot_table[j] = "processed"
        /\ response_table[j].present /\ response_table[j].is_email_extracted

\* C9: a Stage 1 run over N queries with batch size B has made exactly
\* ceil(N/B) submission attempts when it returns, whatever each attempt met.
C9_CeilAttempts ==
    \A r \in Runs : pc[r] = "s1_done" /\ s1[r].range_step > 0 =>
        s1[r].attempts = CeilDiv(s1[r].total_queries, s1[r].range_step)

\* C10: a failed submission attempt (no response, or a response without a
\* snapshot id) leaves snapshot_table as it was, goes nowhere near
\* save_snapshot, and is counted in failed_batches.
C10_FailedSubmissionCounted ==
    [][\A r \in Runs :
          s1'[r].attempts = s1[r].attempts + 1 /\ ~HasSnapshotId(s1'[r].response)
          => /\ snapshot_table' = snapshot_table
             /\ pc'[r] # "s1_save"
             /\ s1'[r].failed_batches = s1[r].failed_batches + 1
             /\ result'[r] # ReturnedNone]_vars

\* C11: save_snapshot is idempotent and tells "already there" from a fault:
\* called for a snapshot id that has a row, it leaves snapshot_table as it is
\* and returns a value that differs from the one it returns on a storage fault.
C11_CreateJobIdempotent ==
    \A j \in JobIds : snapshot_table[j] # "absent" =>
        /\ save_snapshot(snapshot_table, j, "up").tbl = snapshot_table
        /\ \A f \in Faults :
             save_snapshot(snapshot_table, j, "up").ret # save_snapshot(snapshot_table, j, f).ret

\* The value a poll returned makes Stage 2 take its "still running" branch:
\* it unpacks into two elements and the second, is_running, is truthy.
PolledStillRunning(r) ==
    /\ pc[r] = "s2_unpack"
    /\ ~s2[r].value.none
    /\ Len(s2[r].value.body) = 2
    /\ Truthy(s2[r].value.body[2])

\* C12, one job: a job that polls as still running is counted as running and
\* nothing is written: no table changes and save_response is not reached.
C12_RunningStepWritesNothing ==
    [][\A r \in Runs : PolledStillRunning(r) /\ pc'[r] # "s2_unpack" =>
          /\ UNCHANGED <<snapshot_table, response_table, email_table>>
          /\ pc'[r] \in {"s2_poll", "s2_done"}
          /\ s2'[r].running_snapshots = s2[r].running_snapshots + 1
          /\ s2'[r].log = s2[r].log]_vars

\* C12, whole run: a run that counted every job of its list as running made
\* no save_response and no mark_as_processed call, and every job of its list
\* is still pending with the response table as the calls of others left it.
C12_AllRunningRunState ==
    \A r \in Runs :
        pc[r] = "s2_done" /\ s2[r].total > 0 /\ s2[r].running_snapshots = s2[r].total =>
            /\ \A j \in JobIds : s2[r].log[j] = NoLog
            /\ result[r] = Stage2Tally(s2[r])
            /\ result[r].successful = 0 /\ result[r].duplicate_snapshots = 0
            /\ \A k \in 1..s2[r].total : snapshot_table[s2[r].snapshot_ids[k]] = "pending"

\* C12: running Stage 2 when every pending job polls as still running changes
\* nothing in the store: the pending jobs stay pending, no status changes and
\* no response is stored.
C12_AllRunningFrame == C12_RunningStepWritesNothing /\ []C12_AllRunningRunState

\* C12 witness: a run over all the pending jobs has returned having counted
\* every one as running; all are pending and no response is stored.
C12_Witness ==
    /\ pc["A"] = "s2_done"
    /\ s2["A"].total = NumJobs /\ s2["A"].running_snapshots = NumJobs
    /\ \A j \in JobIds : snapshot_table[j] = "pending" /\ ~response_table[j].present

\* save_email called twice in a row for one address on table tbl, the store up
SaveEmailTwice(tbl, email) ==
    LET first  == save_email(tbl, email, "up")
        second == save_email(first.tbl, email, "up")
    IN [first |-> first, second |-> second]

\* C13: save_email called twice with the same address returns Success and
\* then Duplicate (not Error) and stores one row; and whatever calls were
\* made, with whatever faults, no address has more than one row.
C13_SaveEmailTwice ==
    /\ \A a \in Addresses : email_table[a] <= 1
    /\ \A a \in Addresses :
         LET t == SaveEmailTwice(email_table, a) IN
         /\ email_table[a] = 0 =>
              /\ t.first.success /\ t.first.error_type = ""
              /\ t.first.tbl[a] = 1
         /\ ~t.second.success /\ t.second.error_type = "duplicate"
         /\ t.second.tbl = t.first.tbl /\ t.second.tbl[a] = 1

\* C13 witness: save_email has just returned Duplicate for an address that
\* has one row.
C13_Witness ==
    \E a \in Addresses :
        /\ last_call = [op |-> "save_email", key |-> a, ret |-> "duplicate", rows |-> {}]
        /\ email_table[a] = 1

\* C14: a response that has been marked extracted is not handed out again:
\* get_unextracted_responses never returns it, whatever the call meets, and
\* the rows the last call returned are all stored and unextracted.
C14_ExtractedNeverListed ==
    /\ \A j \in JobIds : response_table[j].present /\ response_table[j].is_email_extracted =>
          \A env \in StoreEnv : j \notin get_unextracted_responses(response_table, env)
    /\ last_call.op = "get_unextracted_responses" =>
          \A j \in last_call.rows :
              response_table[j].present /\ ~response_table[j].is_email_extracted

\* C14 witness: with one response extracted and another not, a call of
\* get_unextracted_responses has just returned the unextracted one alone.
C14_Witness ==
    \E j, k \in JobIds :
        /\ response_table[j].present /\ response_table[j].is_email_extracted
        /\ response_table[k].present /\ ~response_table[k].is_email_extracted
        /\ last_call.op = "get_unextracted_responses"
        /\ last_call.rows = {k}

\* the scenario's Stage 1 run: two queries, batch size 2
C15_Stage1 ==
    \A r \in Runs :
        pc[r] = "s1_done" /\ s1[r].total_queries = 2 /\ s1[r].range_step = 2
          /\ result[r].kind = "statistics" /\ result[r].successful_snapshots = 1 =>
            /\ s1[r].attempts = 1
            /\ Len(result[r].submitted_ids) = 1
            /\ snapshot_table[result[r].submitted_ids[1]] # "absent"

\* the scenario's Stage 2 run: the poll of the finished job returns a payload
\* of two records (each holding the address); the response is saved next
C15_Stage2 ==
    [][\A r \in Runs :
          pc[r] = "s2_unpack" /\ pc'[r] # "s2_unpack"
            /\ provider[S2Current(r)] = "finished"
            /\ ~s2[r].value.none /\ s2[r].value.body = <<"record", "record">>
          => pc'[r] = "s2_save"]_vars

\* the scenario's Stage 3 run: it leaves every stored response extracted
C15_Stage3 ==
    \A r \in Runs : pc[r] = "s3_done" /\ s3[r].num_batches > 0 =>
        \A j \in JobIds :
            response_table[j].present => response_table[j].is_email_extracted

\* C15: the end-to-end scenario: Stage 1 with two queries and batch size 2
\* makes one submission and creates one job; the Stage 2 run whose poll
\* returns the payload with two records stores the response and marks the job
\* Processed; the Stage 3 run marks the response extracted.
C15_EndToEnd == []C15_Stage1 /\ C15_Stage2 /\ []C15_Stage3

\* C16: every stage run returns a structured tally, never nothing: whenever a
\* handler has returned, its result is the statistics of Stage 1 or a tally
\* with a message, and the tally of a run that failed as a whole (no API key,
\* an exception) is all zeros.
C16_AlwaysATally ==
    \A r \in Runs : pc[r] \in {"s1_done", "s2_done", "s3_done"} =>
        /\ result[r].kind \in {"statistics", "tally"}
        /\ (result[r].kind = "tally" /\ result[r].message \in {"Error", "API key not provided"}
              => result[r].total = 0 /\ result[r].successful = 0 /\ result[r].failed = 0)

\* C17: get_unextracted_responses(limit, offset) is paginated: with responses
\* waiting, a call for a page of `limit` rows returns rows, at most `limit` of
\* them, all unextracted.
C17_Paginated ==
    (\E j \in JobIds : response_table[j].present /\ ~response_table[j].is_email_extracted) =>
        \A limit \in 1..NumJobs :
            LET c == call_get_unextracted_responses(response_table, {"limit", "offset"}, "up") IN
            /\ ~c.raised
            /\ Cardinality(c.rows) <= limit
            /\ \A j \in c.rows : ~response_table[j].is_email_extracted

\* C18: mark_as_processed and mark_email_extracted report success only when
\* a row was updated: after a call that returned True the job is Processed,
\* respectively the response is stored and extracted; with no such row the
\* call reports a failure.
C18_MarkReportsNotFound ==
    \A j \in JobIds :
        /\ last_call = [op |-> "mark_as_processed", key |-> ToString(j), ret |-> "True",
                        rows |-> {}]
             => snapshot_table[j] = "processed"
        /\ last_call = [op |-> "mark_email_extracted", key |-> ToString(j), ret |-> "True",
                        rows |-> {}]
             => response_table[j].present /\ response_table[j].is_email_extracted

\* how often x occurs in the list l
Occurrences(l, x) == Cardinality({k \in 1..Len(l) : l[k] = x})

\* C19 (a): the list extract_emails_from_json returns holds no address twice,
\* and a second call on the same payload returns the same set.
C19_NoAddressTwice ==
    last_call.op = "extract_emails_from_json" =>
        /\ \A k \in 1..Len(last_call.ret) : Occurrences(last_call.ret, last_call.ret[k]) = 1
        /\ {last_call.ret[k] : k \in 1..Len(last_call.ret)}
             = {last_call.first[k] : k \in 1..Len(last_call.first)}

\* C19 (b): an address that occurs in the payload, however often, is in the
\* returned list exactly once.
C19_EachAddressOnce ==
    last_call.op = "extract_emails_from_json" =>
        \A k \in 1..Len(last_call.items) :
            Occurrences(last_call.ret, Chars(last_call.items[k].address)) = 1

\* C19: extract_emails_from_json returns each address at most once: for a
\* payload in which an address occurs one or more times the result holds
\* that address exactly once, and two calls return the same set.
C19_ExtractDedup == C19_NoAddressTwice /\ C19_EachAddressOnce

\* days, and minutes, since the start of the model's calendar
DayIndex(date) == (date.month - 1) * DaysPerMonth + date.day
MinuteIndex(created_at) == DayIndex(created_at) * 1440 + created_at.minute

\* the rows C20 says a query returns
InRange(created_at, start_date, end_date) ==
    /\ (start_date # NoDate => MinuteIndex(created_at) >= DayIndex(start_date) * 1440)
    /\ (end_date # NoDate => MinuteIndex(created_at) < (DayIndex(end_date) + 1) * 1440)

\* C20: get_emails_by_date(start_date, end_date) returns exactly the emails
\* created at or after the start of start_date and before the start of the
\* day after end_date; an absent bound does not restrict that side.
C20_DateRangeInclusive ==
    last_call.op = "get_emails_by_date" /\ last_call.env = "up" =>
        {last_call.ret[k] : k \in 1..Len(last_call.ret)}
          = {a \in Addresses :
               /\ last_call.key[a] # NoEmailRow
               /\ InRange(last_call.key[a], last_call.start_date, last_call.end_date)}

\* C20 witness: a query whose end_date is the last day of a month returned
\* the email created on that day at 23:59 and not the one created at 00:00
\* of the next day.
C20_Witness ==
    /\ last_call.op = "get_emails_by_date" /\ last_call.env = "up"
    /\ last_call.end_date = [month |-> 1, day |-> DaysPerMonth]
    /\ last_call.key["a@b.com"] = [month |-> 1, day |-> DaysPerMonth, minute |-> 1439]
    /\ last_call.key["c@d.org"] = [month |-> 2, day |-> 1, minute |-> 0]
    /\ last_call.ret = <<"a@b.com">>

\* the rows a fetch has to choose from
Unextracted == get_unextracted_responses(response_table, "up")

\* C21 (a): with unextracted rows waiting, a fetch of a Stage 3 run returns a
\* page of them, none of which an earlier page of the run held.
C21_FetchReturnsUnhandledRows ==
    [][\A r \in Runs :
          s3'[r].fetch_calls = s3[r].fetch_calls + 1 /\ Unextracted # {} =>
            /\ Len(s3'[r].pages) = Len(s3[r].pages) + 1
            /\ s3'[r].pages[Len(s3'[r].pages)] # {}
            /\ s3'[r].pages[Len(s3'[r].pages)] \subseteq Unextracted
            /\ \A k \in 1..Len(s3[r].pages) :
                 s3[r].pages[k] \cap s3'[r].pages[Len(s3'[r].pages)] = {}]_vars

\* C21 (b): no row is in two pages of one run.
C21_PagesDisjoint ==
    \A r \in Runs : \A a, b \in 1..Len(s3[r].pages) :
        a # b => s3[r].pages[a] \cap s3[r].pages[b] = {}

C22_StopsOnShortPage ==
    \A r \in Runs : pc[r] = "s3_done" /\ s3[r].num_batches > 0 =>
        /\ Len(s3[r].pages) >= 1
        /\ Cardinality(s3[r].pages[Len(s3[r].pages)]) < BATCH_SIZE
        /\ \A k \in 1..(Len(s3[r].pages) - 1) : Cardinality(s3[r].pages[k]) = BATCH_SIZE

\* C23: save_response and save_email report Duplicate only when a row with
\* the same key is stored already, and report every fault as Error: a call
\* that has just returned Duplicate finds its key in the table, and on any
\* fault both operations return Error.
C23_DuplicateOnlyForStoredKey ==
    /\ \A j \in JobIds :
         last_call = [op |-> "save_response", key |-> ToString(j), ret |-> "duplicate",
                      rows |-> {}]
           => response_table[j].present
    /\ \A a \in Addresses :
         last_call = [op |-> "save_email", key |-> a, ret |-> "duplicate", rows |-> {}]
           => email_table[a] > 0
    /\ \A f \in Faults :
         /\ \A j \in JobIds :
              save_response(response_table, j, "record", f).error_type = "error"
         /\ \A a \in Addresses : save_email(email_table, a, f).error_type = "error"

\* A poll that failed (get_snapshot_data returned None) or returned a body
\* with no data in it.
PolledNoData(r) ==
    /\ pc[r] = "s2_unpack"
    /\ \/ s2[r].value.none
       \/ \A k \in 1..Len(s2[r].value.body) : ~Truthy(s2[r].value.body[k])

\* C24: in Stage 2 a job whose poll fails or returns no data is counted as
\* skipped and left untouched: the run goes on, no table changes, the job
\* stays Pending and the next get_unprocessed_snapshots lists it again.
C24_NoDataSkipped ==
    [][\A r \in Runs : PolledNoData(r) /\ pc'[r] # "s2_unpack" =>
          /\ s2'[r].skipped = s2[r].skipped + 1
          /\ result'[r] # Stage2ErrorTally
          /\ pc'[r] # "s2_save"
          /\ UNCHANGED <<snapshot_table, response_table, email_table>>
          /\ snapshot_table'[S2Current(r)] = "pending"
          /\ \A ids \in get_unprocessed_snapshots(snapshot_table', "up") :
               \E k \in 1..Len(ids) : ids[k] = S2Current(r)]_vars

\* C25: Stage 1 submits the input as consecutive batches, each once: when a
\* run over N queries with batch size B has ended, every query is in exactly
\* one submitted batch, the k-th batch starts at query (k-1)*B, and every
\* batch but the last holds exactly B queries.
C25_BatchesPartitionInput ==
    \A r \in Runs : pc[r] = "s1_done" /\ s1[r].range_step > 0 =>
        LET bs == s1[r].batches
            B  == s1[r].range_step
        IN
        /\ \A q \in 0..(s1[r].total_queries - 1) :
             Cardinality({k \in 1..Len(bs) : bs[k].from <= q /\ q < bs[k].from + bs[k].len}) = 1
        /\ \A k \in 1..Len(bs) : bs[k].from = (k - 1) * B /\ bs[k].len \in 1..B
        /\ \A k \in 1..(Len(bs) - 1) : bs[k].len = B

\* C26 (a): a get_emails_by_date call writes nothing: the three tables and
\* the email rows it reads are after the call what they were before it.
C26_QueryChangesNothing ==
    [][last_call'.op = "get_emails_by_date" =>
          /\ UNCHANGED <<snapshot_table, response_table, email_table>>
          /\ last_call'.key = last_call.key]_vars

\* C26 (b): when the store cannot be read the call returns the empty list.
C26_EmptyOnFault ==
    last_call.op = "get_emails_by_date" /\ last_call.env # "up" => last_call.ret = <<>>

\* C26: Stage 4 is a pure read: get_emails_by_date with any combination of
\* start_date and end_date leaves every record unchanged, and returns an
\* empty list, not a failure, when the store cannot be read.
C26_PureRead == C26_QueryChangesNothing /\ []C26_EmptyOnFault

\* C26 witness: a query with both dates given met a store fault while an
\* email row was stored, and returned the empty list.
C26_Witness ==
    /\ last_call.op = "get_emails_by_date" /\ last_call.env \in Faults
    /\ last_call.start_date # NoDate /\ last_call.end_date # NoDate
    /\ \E a \in Addresses : last_call.key[a] # NoEmailRow
    /\ last_call.ret = <<>>

\* the addresses extract_emails_from_json yields for a response
ExtractedAddresses(response) ==
    LET emails == CHOOSE l \in extract_emails_from_json(response) : TRUE IN
    {AddressOf(emails[k]) : k \in 1..Len(emails)}

C28_NoJobHandleLost ==
    \A r \in Runs : pc[r] = "s1_done" =>
        \A j \in JobIds : provider[j] # "none" => snapshot_table[j] # "absent"

\* C29 (a): a Stage 3 run calls get_unextracted_responses at most
\* ceil(total_count / BATCH_SIZE) times.
C29_FetchCallsBounded ==
    \A r \in Runs : s3[r].fetch_calls <= CeilDiv(s3[r].total_count, BATCH_SIZE)

\* C29 (b): a Stage 3 run that has started returns.
C29_RunReturns == \A r \in Runs : pc[r] = "s3_fetch" ~> pc[r] = "s3_done"

\* C29: every Stage 3 run terminates: it makes at most
\* ceil(total_count / BATCH_SIZE) fetches for the row count it was started
\* with and then returns, also when rows stay unextracted and responses keep
\* arriving.
C29_Stage3Terminates == []C29_FetchCallsBounded /\ C29_RunReturns

\* C29 witness: a run started for more than one page of rows has returned
\* after one fetch, with a stored response still unextracted.
C29_Witness ==
    /\ pc["A"] = "s3_done"
    /\ s3["A"].total_count > BATCH_SIZE
    /\ s3["A"].fetch_calls = 1
    /\ \E j \in JobIds : response_table[j].present /\ ~response_table[j].is_email_extracted

\* the five counters of a Stage 2 tally added up
Tallied(t) ==
    t.successful + t.failed + t.skipped + t.duplicate_snapshots + t.running_snapshots

\* C30 (a): the tally of a run that completed its loop is a partition of the
\* jobs it listed: the five counters add up to total, the length of the list.
C30_TallyAddsUp ==
    \A r \in Runs : pc[r] = "s2_done" /\ result[r].message = "Processed" =>
        /\ result[r].total = Len(s2[r].snapshot_ids)
        /\ Tallied(result[r]) = result[r].total

\* C30 (b) as stated: successful goes up by one exactly in the steps in which
\* the run moves a job from pending to processed after a Success save.
C30_SuccessfulCountsMoves ==
    [][\A r \in Runs : pc[r] = "s2_mark" /\ pc'[r] # "s2_mark" =>
          (s2'[r].successful = s2[r].successful + 1
             <=> /\ s2[r].save_success
                 /\ snapshot_table[S2Current(r)] = "pending"
                 /\ snapshot_table'[S2Current(r)] = "processed")]_vars

\* C30 as stated: the Stage 2 tally is a partition of the listed jobs, and
\* successful is the number of jobs this run moved from Pending to Processed
\* after a Success save.
C30_TallyPartition == []C30_TallyAddsUp /\ C30_SuccessfulCountsMoves

\* C30 (b) as amended: successful goes up by one exactly in the steps in
\* which the run's mark_as_processed call succeeds after a Success save, and
\* the job is Processed after such a step.
C30_SuccessfulCountsMarks ==
    [][\A r \in Runs : pc[r] = "s2_mark" /\ pc'[r] # "s2_mark" =>
          /\ (s2'[r].successful = s2[r].successful + 1
                <=> s2[r].save_success /\ s2'[r].log[S2Current(r)].mark = "ok")
          /\ (s2'[r].successful = s2[r].successful + 1
                => snapshot_table'[S2Current(r)] = "processed")]_vars

\* C30 as amended: the Stage 2 tally of a run that completed its loop is a
\* partition of the listed jobs (the five counters add up to total), and
\* successful is the number of jobs for which this run's save returned
\* Success and its mark_as_processed call succeeded; each of them is
\* Processed afterwards, though an overlapping run may have made it so first.
C30_TallyPartitionOwnCalls == []C30_TallyAddsUp /\ C30_SuccessfulCountsMarks

\* C30 witness: two overlapping runs have completed their loops over the
\* same job; one counted it as successful, the other as a duplicate.
C30_Witness ==
    /\ pc["A"] = "s2_done" /\ result["A"].message = "Processed"
    /\ pc["B"] = "s2_done" /\ result["B"].message = "Processed"
    /\ result["A"].successful = 1 /\ result["B"].duplicate_snapshots = 1
    /\ s2["A"].snapshot_ids = s2["B"].snapshot_ids

\* C31 (a): when a Stage 1 run has ended, its counters agree: successful
\* plus failed batches is the number of batches, submitted_ids has one entry
\* per successful snapshot, and these are the statistics it returned.
C31_CountersAgree ==
    \A r \in Runs : pc[r] = "s1_done" /\ s1[r].range_step > 0 =>
        /\ s1[r].successful_snapshots + s1[r].failed_batches = s1[r].batch_count
        /\ Len(s1[r].submitted_ids) = s1[r].successful_snapshots
        /\ result[r] = Statistics(s1[r])

\* C31 (b): successful_snapshots goes up by one exactly in the steps in which
\* the run creates a row in snapshot_table, and no other step of the run
\* creates one.
C31_SuccessIffRowCreated ==
    [][\A r \in Runs : pc[r] \in {"s1_send", "s1_save"} /\ pc'[r] # pc[r] =>
          /\ (s1'[r].successful_snapshots = s1[r].successful_snapshots + 1
                <=> \E j \in JobIds :
                       snapshot_table[j] = "absent" /\ snapshot_table'[j] = "pending")
          /\ s1'[r].successful_snapshots \in
                {s1[r].successful_snapshots, s1[r].successful_snapshots + 1}
          /\ Cardinality({j \in JobIds : snapshot_table[j] # snapshot_table'[j]}) <= 1]_vars

\* C31: the Stage 1 tally is consistent with the store: at the end of every
\* run successful_snapshots + failed_batches = total_batches, submitted_ids
\* is as long as successful_snapshots, and the run created exactly
\* successful_snapshots rows in snapshot_table.
C31_TallyMatchesStore == []C31_CountersAgree /\ C31_SuccessIffRowCreated

====
